---------------------------- MODULE Spec2Model ----------------------------
(***************************************************************************)
(* Wallet ledger of the callondemand backend (src/server.js): the Paystack *)
(* deposit webhook, the wallet withdrawal and the VTpass transaction-update*)
(* webhook, run as concurrent request handlers over one Firestore ledger   *)
(* (users/{id}.balance, transactions/{id}) and the payment gateway.        *)
(*                                                                         *)
(* One action is one run of a handler between two suspension points (an    *)
(* await): JavaScript runs the code between two awaits without interleaving*)
(* any other handler.  An action named ...Receive is the synchronous head  *)
(* of a handler, the others resume it when the awaited call settles.       *)
(***************************************************************************)
EXTENDS Integers, Sequences, FiniteSets, TLC

\* ------------------------------------------------------------------ bounds
\* Number of requests the server receives in one behaviour (any number of
\* them may be in flight together).
MaxReqs == 3
\* Largest reading of Date.now() (the clock starts at 1 and never goes back).
MaxClock == 2
\* Attempts db.runTransaction makes before it gives up on an aborted commit.
MaxAttempts == 2

Reqs == 1..MaxReqs

\* ------------------------------------------------------------ ledger store
\* The one user document that exists; any other id ("ghost", the user of
\* transaction R4) names no document.
Users == {"u1"}
InitBalance == 500

\* Transaction references the clients and the gateway use.
Refs == {"R1", "R2", "R3", "R4"}

\* `WITHDRAW-${Date.now()}`
TransferId(now) == "WITHDRAW-" \o ToString(now)

TxnIds == Refs \cup {TransferId(t) : t \in 1..MaxClock}

NoDoc == [exists |-> FALSE, userId |-> "", amount |-> 0, type |-> "", status |-> ""]

Doc(userId, amount, type, status) ==
    [exists |-> TRUE, userId |-> userId, amount |-> amount, type |-> type, status |-> status]

\* ---------------------------------------------------------------- gateway
\* The record the gateway may hold of a reference when transaction/verify asks
\* for it (vRes.data.data): the gateway is an external system, and what it
\* answers is an input of the call.  It knows nothing of reference R2.
Charge(status, amount) == [status |-> status, amount |-> amount]
ChargeStatuses == {"success", "failed", "abandoned"}
GatewayRecords(ref) ==
    CASE ref = "R1" -> {Charge(s, 10000) : s \in ChargeStatuses}
      [] ref = "R3" -> {Charge("success", 5000)}
      [] ref = "R4" -> {Charge("success", 5000)}
      [] OTHER -> {}

\* ------------------------------------------------------------ HTTP replies
NoResp == [status |-> 0, body |-> ""]
Reply(status, body) == [status |-> status, body |-> body]

VARIABLES
    balance,      \* users/{id}.balance of each existing user document
    txns,         \* transactions/{id}
    now,          \* last reading of Date.now()
    req,          \* the handlers in flight: position, locals, reply sent
    started,      \* number of requests received so far
    last,         \* history: the handler that finished last
    credits,      \* history: deposit credits committed per reference
    refunds,      \* history: VTpass refunds made per transaction
    gwCalls       \* history: calls issued to the gateway, per operation

vars == <<balance, txns, now, req, started, last, credits, refunds, gwCalls>>

\* A handler in flight: kind and pc say where it is; ref, user, amt, code,
\* attempts and stale are its locals; resp is the reply it has sent; paid
\* (history) says that a payout call of this withdrawal returned successfully.
\* A slot whose handler has finished is free for the next request.
Idle == [kind |-> "none", pc |-> "idle", ref |-> "", user |-> "", amt |-> 0,
         code |-> "", attempts |-> 0, stale |-> FALSE, resp |-> NoResp,
         paid |-> FALSE]

\* What is kept of a finished handler: its kind, the reply it sent, the branch
\* it ended on, and whether a payout call of it returned successfully.
Done(kind, resp, outcome, paid) ==
    [kind |-> kind, resp |-> resp, outcome |-> outcome, paid |-> paid]

Init ==
    /\ balance = [u \in Users |-> InitBalance]
    /\ txns = [id \in TxnIds |->
                 CASE id = "R1" -> Doc("u1", 100, "credit", "pending")
                   [] id = "R2" -> Doc("u1", 50, "debit", "pending")
                   [] id = "R4" -> Doc("ghost", 50, "credit", "pending")
                   [] OTHER -> NoDoc]
    /\ now = 1
    /\ req = [r \in Reqs |-> Idle]
    /\ started = 0
    /\ last = Done("none", NoResp, "", FALSE)
    /\ credits = [ref \in Refs |-> 0]
    /\ refunds = [ref \in Refs |-> 0]
    /\ gwCalls = [verify |-> 0, transfer |-> 0]

\* A request takes the first free slot (the slots are interchangeable).
Startable(r) ==
    /\ started < MaxReqs
    /\ req[r].pc = "idle"
    /\ \A q \in 1..(r - 1) : req[q].pc # "idle"

\* The handler in slot r finishes; rq is req after the step's other effects.
Finish(rq, r, done) ==
    /\ req' = [rq EXCEPT ![r] = Idle]
    /\ last' = done
    /\ started' = IF req[r].pc = "idle" THEN started + 1 ELSE started

\* The handler in slot r goes on as record next.
Continue(r, next) ==
    /\ req' = [req EXCEPT ![r] = next]
    /\ started' = IF req[r].pc = "idle" THEN started + 1 ELSE started
    /\ UNCHANGED last

\* A write to users/{u} invalidates the read every open store transaction
\* made of that document.
Invalidate(rq, r, u) ==
    [q \in Reqs |->
        IF q # r /\ rq[q].kind = "withdraw" /\ rq[q].pc \in {"payout", "commit"}
                 /\ rq[q].user = u
        THEN [rq[q] EXCEPT !.stale = TRUE]
        ELSE rq[q]]

\* ------------------------------------------------- POST /api/paystack/webhook
WebhookSecret == "whsec"
RawBodies == {"cs_R1", "cs_R1_other", "cs_R3", "cs_R4", "cf_R1", "notjson"}
\* req.body when express.raw did not read the body (another content type, or
\* no body): not a Buffer.
NoBody == "nobody"

\* crypto.createHmac('sha512', secret).update(body).digest('hex'): a keyed
\* hash, distinct for distinct (key, body).
Hmac(secret, body) == <<"hmac", secret, body>>
\* req.headers['x-paystack-signature'] of a request without the header
NoHeader == <<"none", "", "">>
SigHeaders(body) ==
    {Hmac(WebhookSecret, body), Hmac(WebhookSecret, "cs_R3"), Hmac("guess", body), NoHeader}

\* JSON.parse(req.body.toString()): event.event, event.data.reference, and
\* the amount (minor units), status and user the body states in event.data.
\* cs_R1_other is cs_R1 with another amount, status and user.
Event(event, reference, amount, status, userId) ==
    [ok |-> TRUE, event |-> event, reference |-> reference,
     amount |-> amount, status |-> status, userId |-> userId]
ParseError == [ok |-> FALSE, event |-> "", reference |-> "",
               amount |-> 0, status |-> "", userId |-> ""]
Parse(body) ==
    CASE body = "cs_R1" -> Event("charge.success", "R1", 10000, "success", "u1")
      [] body = "cs_R1_other" -> Event("charge.success", "R1", 990000, "failed", "ghost")
      [] body = "cs_R3" -> Event("charge.success", "R3", 5000, "success", "u1")
      [] body = "cs_R4" -> Event("charge.success", "R4", 5000, "success", "ghost")
      [] body = "cf_R1" -> Event("charge.failed", "R1", 10000, "failed", "u1")
      [] OTHER -> ParseError

\* Mutant of SignatureOK: any signature header that is present is accepted.
SignatureOK_AnyHeader(hash, header) == header # NoHeader

\* hash !== req.headers['x-paystack-signature'], negated
SignatureOK(hash, header) == hash = header

\* Mutant of IsChargeSuccess: every charge event is reconciled.
IsChargeSuccess_AnyCharge(event) == event.event \in {"charge.success", "charge.failed"}

\* event.event === 'charge.success'
IsChargeSuccess(event) == event.event = "charge.success"

\* Mutant of VerifiedOK: only a failed charge is turned away.
VerifiedOK_NotFailed(verifiedData) == verifiedData.status # "failed"

\* verifiedData.status === 'success'
VerifiedOK(verifiedData) == verifiedData.status = "success"

\* Mutant of AmountInNGN: the amount is credited in the gateway's minor units.
AmountInNGN_Minor(amount) == amount

\* verifiedData.amount / 100 (the gateway's amounts here are whole naira)
AmountInNGN(amount) == amount \div 100

\* Mutant of AlreadyProcessed: the gate forgets the missing record.
AlreadyProcessed_OnlySuccess(snap) == snap.exists /\ snap.status = "success"

\* Mutant of AlreadyProcessed: the gate forgets the status.
AlreadyProcessed_NoStatus(snap) == ~snap.exists

\* !txnSnap.exists || txnSnap.data().status === 'success'
AlreadyProcessed(snap) == ~snap.exists \/ snap.status = "success"

\* An exception leaves the async handler: Express 4 never answers the
\* request, Express 5 passes the rejection to the error handler (500).
Escaped(r, kind) ==
    /\ \E resp \in {NoResp, Reply(500, "Internal server error")} :
          Finish(req, r, Done(kind, resp, "threw", FALSE))
    /\ UNCHANGED <<balance, txns, now, credits, refunds, gwCalls>>

\* The handler reaches its last line, after the catch block or past the ifs.
WebhookEnds(r, outcome) ==
    /\ Finish(req, r, Done("deposit", Reply(200, "Webhook Received"), outcome, FALSE))
    /\ UNCHANGED <<balance, txns, now, credits, refunds, gwCalls>>

\* The handler up to its first await: signature, parse, event type, and the
\* verify request to the gateway.
WebhookReceive(r, body, sig) ==
    /\ Startable(r)
    /\ IF body = NoBody
       THEN Escaped(r, "deposit")
       ELSE IF ~SignatureOK(Hmac(WebhookSecret, body), sig)
       THEN /\ Finish(req, r, Done("deposit", Reply(200, "Invalid Signature"),
                                   "bad signature", FALSE))
            /\ UNCHANGED <<balance, txns, now, credits, refunds, gwCalls>>
       ELSE IF ~Parse(body).ok
       THEN Escaped(r, "deposit")
       ELSE IF ~IsChargeSuccess(Parse(body))
       THEN WebhookEnds(r, "other event")
       ELSE /\ Continue(r, [Idle EXCEPT !.kind = "deposit", !.pc = "verify",
                                        !.ref = Parse(body).reference])
            /\ gwCalls' = [gwCalls EXCEPT !.verify = @ + 1]
            /\ UNCHANGED <<balance, txns, now, credits, refunds>>

\* Mutant of WebhookVerifyThrows: the handler goes on to the store when the
\* verify call throws.
WebhookVerifyThrows_GoesOn(r) ==
    /\ req[r].kind = "deposit" /\ req[r].pc = "verify"
    /\ Continue(r, [req[r] EXCEPT !.pc = "get"])
    /\ UNCHANGED <<balance, txns, now, credits, refunds, gwCalls>>

\* axios.get(.../transaction/verify/reference) rejects
WebhookVerifyThrows(r) ==
    /\ req[r].kind = "deposit" /\ req[r].pc = "verify"
    /\ WebhookEnds(r, "verify threw")

\* axios.get(.../transaction/verify/reference) resolves
WebhookVerifyReturns(r, verifiedData) ==
    /\ req[r].kind = "deposit" /\ req[r].pc = "verify"
    /\ IF VerifiedOK(verifiedData)
       THEN /\ Continue(r, [req[r] EXCEPT !.pc = "get",
                                          !.amt = AmountInNGN(verifiedData.amount)])
            /\ UNCHANGED <<balance, txns, now, credits, refunds, gwCalls>>
       ELSE WebhookEnds(r, "not verified")

\* txnRef.get() rejects
WebhookGetThrows(r) ==
    /\ req[r].kind = "deposit" /\ req[r].pc = "get"
    /\ WebhookEnds(r, "get threw")

\* txnRef.get() resolves
WebhookGetReturns(r) ==
    /\ req[r].kind = "deposit" /\ req[r].pc = "get"
    /\ IF AlreadyProcessed(txns[req[r].ref])
       THEN /\ Finish(req, r, Done("deposit", Reply(200, "Already processed"),
                                   IF txns[req[r].ref].exists THEN "already processed"
                                                              ELSE "no record", FALSE))
            /\ UNCHANGED <<balance, txns, now, credits, refunds, gwCalls>>
       ELSE /\ Continue(r, [req[r] EXCEPT !.pc = "commit",
                                          !.user = txns[req[r].ref].userId])
            /\ UNCHANGED <<balance, txns, now, credits, refunds, gwCalls>>

\* Mutant of WebhookCommitThrows: the two updates are sent one by one
\* (txnRef.update, then userRef.update), and the second one throws.
WebhookCommitThrows_Partial(r) ==
    /\ req[r].kind = "deposit" /\ req[r].pc = "commit"
    /\ txns' = [txns EXCEPT ![req[r].ref].status = "success"]
    /\ Finish(req, r, Done("deposit", Reply(200, "Webhook Received"), "commit threw", FALSE))
    /\ UNCHANGED <<balance, now, credits, refunds, gwCalls>>

\* db.runTransaction rejects: t.update of a missing document (NOT_FOUND), or
\* the store fails; nothing of the transaction is written.
WebhookCommitThrows(r) ==
    /\ req[r].kind = "deposit" /\ req[r].pc = "commit"
    /\ WebhookEnds(r, IF req[r].user \in Users THEN "commit threw"
                                               ELSE "no user document")

\* db.runTransaction commits both updates
WebhookCommits(r) ==
    /\ req[r].kind = "deposit" /\ req[r].pc = "commit"
    /\ req[r].user \in Users
    /\ txns[req[r].ref].exists
    /\ balance' = [balance EXCEPT ![req[r].user] = @ + req[r].amt]
    /\ txns' = [txns EXCEPT ![req[r].ref].status = "success"]
    /\ credits' = [credits EXCEPT ![req[r].ref] = @ + 1]
    /\ Finish(Invalidate(req, r, req[r].user), r,
              Done("deposit", Reply(200, "Webhook Received"), "credited", FALSE))
    /\ UNCHANGED <<now, refunds, gwCalls>>

Webhook(r) ==
    \/ \E body \in RawBodies \cup {NoBody} : \E sig \in SigHeaders(body) :
          WebhookReceive(r, body, sig)
    \/ WebhookVerifyThrows(r)
    \/ \E verifiedData \in GatewayRecords(req[r].ref) : WebhookVerifyReturns(r, verifiedData)
    \/ WebhookGetThrows(r)
    \/ WebhookGetReturns(r)
    \/ WebhookCommitThrows(r)
    \/ WebhookCommits(r)

\* ------------------------------------------------ POST /api/paystack/transfer
WithdrawUserIds == {"u1", "ghost", ""}
WithdrawAmounts == {0, -100, 200, 400}
RecipientCodes == {"RCP_1", ""}

\* !userId || !amount || !recipientCode
MissingFields(userId, amount, recipientCode) ==
    userId = "" \/ amount = 0 \/ recipientCode = ""

\* balance < amount
Insufficient(bal, amount) == bal < amount

\* res.status(400).json({ error: ... })
Rejected(r, message) ==
    /\ Finish(req, r, Done("withdraw", Reply(400, message), message, req[r].paid))
    /\ UNCHANGED <<balance, txns, now, credits, refunds, gwCalls>>

\* The handler up to the first await of the store transaction (t.get);
\* clock is the reading Date.now() returns.
WithdrawReceive(r, userId, amount, recipientCode, clock) ==
    /\ Startable(r)
    /\ IF MissingFields(userId, amount, recipientCode)
       THEN /\ clock = now
            /\ Rejected(r, "Missing required fields")
       ELSE /\ now' = clock
            /\ Continue(r, [Idle EXCEPT !.kind = "withdraw", !.pc = "get",
                                        !.user = userId, !.amt = amount,
                                        !.ref = TransferId(clock), !.attempts = 1])
            /\ UNCHANGED <<balance, txns, credits, refunds, gwCalls>>

\* t.get(userRef) rejects: the store transaction rolls back
WithdrawGetThrows(r) ==
    /\ req[r].kind = "withdraw" /\ req[r].pc = "get"
    /\ Rejected(r, "store unavailable")

\* t.get(userRef) resolves: the checks, t.update, and the payout request
WithdrawGetReturns(r) ==
    /\ req[r].kind = "withdraw" /\ req[r].pc = "get"
    /\ IF req[r].user \notin Users
       THEN Rejected(r, "User not found")
       ELSE IF Insufficient(balance[req[r].user], req[r].amt)
       THEN Rejected(r, "Insufficient balance")
       ELSE /\ Continue(r, [req[r] EXCEPT !.pc = "payout", !.stale = FALSE])
            /\ gwCalls' = [gwCalls EXCEPT !.transfer = @ + 1]
            /\ UNCHANGED <<balance, txns, now, credits, refunds>>

\* Mutant of WithdrawPayoutThrows: the decrement was written outside the
\* store transaction, so it stays when the payout call throws.
WithdrawPayoutThrows_Debited(r) ==
    /\ req[r].kind = "withdraw" /\ req[r].pc = "payout"
    /\ balance' = [balance EXCEPT ![req[r].user] = @ - req[r].amt]
    /\ Finish(Invalidate(req, r, req[r].user), r,
              Done("withdraw", Reply(400, "Request failed"), "Request failed", req[r].paid))
    /\ UNCHANGED <<txns, now, credits, refunds, gwCalls>>

\* axios.post(.../transfer) rejects: the store transaction rolls back
WithdrawPayoutThrows(r) ==
    /\ req[r].kind = "withdraw" /\ req[r].pc = "payout"
    /\ Rejected(r, "Request failed")

\* axios.post(.../transfer) resolves: t.set, and the commit is sent
WithdrawPayoutReturns(r) ==
    /\ req[r].kind = "withdraw" /\ req[r].pc = "payout"
    /\ Continue(r, [req[r] EXCEPT !.pc = "commit", !.paid = TRUE])
    /\ UNCHANGED <<balance, txns, now, credits, refunds, gwCalls>>

\* The store refuses the commit (contention on users/{id}, or a failure):
\* runTransaction runs its body again, or gives up after the last attempt.
WithdrawCommitAborts(r) ==
    /\ req[r].kind = "withdraw" /\ req[r].pc = "commit"
    /\ IF req[r].attempts < MaxAttempts
       THEN /\ Continue(r, [req[r] EXCEPT !.pc = "get", !.attempts = @ + 1,
                                          !.stale = FALSE])
            /\ UNCHANGED <<balance, txns, now, credits, refunds, gwCalls>>
       ELSE Rejected(r, "Transaction aborted")

\* Mutant of CommitValid: the balance was read outside the store
\* transaction (userRef.get()), so the commit is not checked against it.
CommitValid_Unchecked(rq) == TRUE

\* Whether the store accepts the commit of a transaction that read users/{id}
\* with t.get: no one has written the document since.
CommitValid(rq) == ~rq.stale

\* The store commits the decrement and the debit record together.
WithdrawCommits(r) ==
    /\ req[r].kind = "withdraw" /\ req[r].pc = "commit"
    /\ CommitValid(req[r])
    /\ balance' = [balance EXCEPT ![req[r].user] = @ - req[r].amt]
    /\ txns' = [txns EXCEPT ![req[r].ref] =
                   Doc(req[r].user, req[r].amt, "debit", "success")]
    /\ Finish(Invalidate(req, r, req[r].user), r,
              Done("withdraw", Reply(200, "payout"), "debited", req[r].paid))
    /\ UNCHANGED <<now, credits, refunds, gwCalls>>

Withdraw(r) ==
    \/ \E userId \in WithdrawUserIds : \E amount \in WithdrawAmounts :
       \E recipientCode \in RecipientCodes : \E clock \in now..MaxClock :
          WithdrawReceive(r, userId, amount, recipientCode, clock)
    \/ WithdrawGetThrows(r)
    \/ WithdrawGetReturns(r)
    \/ WithdrawPayoutThrows(r)
    \/ WithdrawPayoutReturns(r)
    \/ WithdrawCommitAborts(r)
    \/ WithdrawCommits(r)

\* --------------------------------------------------- POST /api/vtpass/webhook
VtTypes == {"transaction-update", "other"}
VtRequestIds == {"R1", "R2"}
VtCodes == {"000", "099", "016"}

\* The handler returns; its reply was sent when the request arrived.
VtEnds(r, outcome) ==
    /\ Finish(req, r, Done("vtpass", Reply(200, "success"), outcome, FALSE))
    /\ UNCHANGED <<balance, txns, now, credits, refunds, gwCalls>>

\* txnSnap.exists && txnSnap.data().status !== 'success'
VtOpen(snap) == snap.exists /\ snap.status # "success"

\* The reply is sent first; then the handler up to txnRef.get().
VtReceive(r, type, requestId, code) ==
    /\ Startable(r)
    /\ IF type # "transaction-update"
       THEN VtEnds(r, "other type")
       ELSE /\ Continue(r, [Idle EXCEPT !.kind = "vtpass", !.pc = "get",
                                        !.ref = requestId, !.code = code,
                                        !.resp = Reply(200, "success")])
            /\ UNCHANGED <<balance, txns, now, credits, refunds, gwCalls>>

\* An awaited store call of the handler rejects: caught and logged.
VtThrows(r) ==
    /\ req[r].kind = "vtpass" /\ req[r].pc \in {"get", "setSuccess", "refund", "setFailed"}
    /\ VtEnds(r, "threw")

\* txnRef.get() resolves
VtGetReturns(r) ==
    /\ req[r].kind = "vtpass" /\ req[r].pc = "get"
    /\ IF ~VtOpen(txns[req[r].ref])
       THEN VtEnds(r, "closed")
       ELSE IF req[r].code = "000"
       THEN /\ Continue(r, [req[r] EXCEPT !.pc = "setSuccess"])
            /\ UNCHANGED <<balance, txns, now, credits, refunds, gwCalls>>
       ELSE IF req[r].code # "099"
       THEN /\ Continue(r, [req[r] EXCEPT !.pc = "refund",
                                          !.user = txns[req[r].ref].userId,
                                          !.amt = txns[req[r].ref].amount])
            /\ UNCHANGED <<balance, txns, now, credits, refunds, gwCalls>>
       ELSE VtEnds(r, "still pending")

\* txnRef.update({status: 'success'}) resolves
VtSetSuccess(r) ==
    /\ req[r].kind = "vtpass" /\ req[r].pc = "setSuccess"
    /\ txns[req[r].ref].exists
    /\ txns' = [txns EXCEPT ![req[r].ref].status = "success"]
    /\ Finish(req, r, Done("vtpass", Reply(200, "success"), "set success", FALSE))
    /\ UNCHANGED <<balance, now, credits, refunds, gwCalls>>

\* users/{userId}.update({balance: increment(amount)}) resolves
VtRefund(r) ==
    /\ req[r].kind = "vtpass" /\ req[r].pc = "refund"
    /\ req[r].user \in Users
    /\ balance' = [balance EXCEPT ![req[r].user] = @ + req[r].amt]
    /\ req' = [Invalidate(req, r, req[r].user) EXCEPT ![r].pc = "setFailed"]
    /\ refunds' = [refunds EXCEPT ![req[r].ref] = @ + 1]
    /\ UNCHANGED <<txns, now, started, last, credits, gwCalls>>

\* txnRef.update({status: 'failed'}) resolves
VtSetFailed(r) ==
    /\ req[r].kind = "vtpass" /\ req[r].pc = "setFailed"
    /\ txns[req[r].ref].exists
    /\ txns' = [txns EXCEPT ![req[r].ref].status = "failed"]
    /\ Finish(req, r, Done("vtpass", Reply(200, "success"), "set failed", FALSE))
    /\ UNCHANGED <<balance, now, credits, refunds, gwCalls>>

VtWebhook(r) ==
    \/ \E type \in VtTypes : \E requestId \in VtRequestIds : \E code \in VtCodes :
          VtReceive(r, type, requestId, code)
    \/ VtThrows(r)
    \/ VtGetReturns(r)
    \/ VtSetSuccess(r)
    \/ VtRefund(r)
    \/ VtSetFailed(r)

Next == \E r \in Reqs : Webhook(r) \/ Withdraw(r) \/ VtWebhook(r)

Spec == Init /\ [][Next]_vars

\* Deposit webhooks delivered one after another: a delivery is received only
\* when every earlier request has finished.
NoneInFlight == \A q \in Reqs : req[q].pc = "idle"

SeqReceive(r) ==
    /\ NoneInFlight
    /\ \E body \in RawBodies \cup {NoBody} : \E sig \in SigHeaders(body) :
          WebhookReceive(r, body, sig)

NextSeq ==
    \E r \in Reqs :
        \/ SeqReceive(r)
        \/ WebhookVerifyThrows(r)
        \/ \E verifiedData \in GatewayRecords(req[r].ref) : WebhookVerifyReturns(r, verifiedData)
        \/ WebhookGetThrows(r)
        \/ WebhookGetReturns(r)
        \/ WebhookCommitThrows(r)
        \/ WebhookCommits(r)

SeqSpec == Init /\ [][NextSeq]_vars

\* The gateway's delivery of the charge.success event of R1, with the
\* withdrawals as other traffic.  The gateway sends the event, and sends it
\* again only when a delivery was not answered 200; its record of R1 is
\* success.  Every gateway call and every store call a deposit delivery
\* awaits eventually returns or throws.
GatewayOwes ==
    \/ gwCalls.verify = 0
    \/ last.kind = "deposit" /\ last.resp.status # 200

LiveDeliver(r) ==
    /\ GatewayOwes
    /\ WebhookReceive(r, "cs_R1", Hmac(WebhookSecret, "cs_R1"))

LiveVerifyReturns(r) == WebhookVerifyReturns(r, Charge("success", 10000))

LiveNext ==
    \E r \in Reqs :
        \/ LiveDeliver(r)
        \/ WebhookVerifyThrows(r)
        \/ LiveVerifyReturns(r)
        \/ WebhookGetThrows(r)
        \/ WebhookGetReturns(r)
        \/ WebhookCommitThrows(r)
        \/ WebhookCommits(r)
        \/ Withdraw(r)

LiveSpec ==
    /\ Init
    /\ [][LiveNext]_vars
    /\ WF_vars(\E r \in Reqs : LiveDeliver(r))
    /\ \A r \in Reqs :
          /\ WF_vars(WebhookVerifyThrows(r) \/ LiveVerifyReturns(r))
          /\ WF_vars(WebhookGetThrows(r) \/ WebhookGetReturns(r))
          /\ WF_vars(WebhookCommitThrows(r) \/ WebhookCommits(r))

\* Deposit webhooks and withdrawals only, in any interleaving.
DepositWithdrawNext == \E r \in Reqs : Webhook(r) \/ Withdraw(r)

DepositWithdrawSpec == Init /\ [][DepositWithdrawNext]_vars

\* ------------------------------------------------------------------ claims
\* The handler in slot r takes the step and was already in flight.
Steps(r) == req[r].pc # "idle" /\ req'[r].pc # req[r].pc
\* The handler in slot r ends with this step.
Ends(r) == req[r].pc # "idle" /\ req'[r] = Idle

\* C1: concurrent deliveries of the deposit webhook for one reference never
\* both credit the balance: at most one credit is committed per reference.
C1_AtMostOneCreditPerReference == \A ref \in Refs : credits[ref] <= 1

\* C2: deposit webhooks for reference R1 delivered one after another credit
\* the balance once: the balance is the initial one plus the verified amount
\* per credit, there is at most one credit, the record is success exactly
\* when credited; a delivery that reads the pending record goes on to the
\* credit, and once credited no later delivery changes the ledger.
C2_SequentialRedeliveryCreditsOnce ==
    /\ [](/\ credits["R1"] <= 1
          /\ balance["u1"] = InitBalance + AmountInNGN(10000) * credits["R1"]
          /\ (txns["R1"].status = "success") <=> (credits["R1"] = 1)
          /\ credits["R1"] = 0 => txns["R1"].status = "pending")
    /\ [][\A r \in Reqs :
            /\ (WebhookGetReturns(r) /\ req[r].ref = "R1" /\ txns["R1"].status = "pending")
                  => req'[r].pc = "commit"
            /\ (WebhookCommits(r) /\ req[r].ref = "R1")
                  => /\ balance' = [balance EXCEPT !["u1"] = @ + AmountInNGN(10000)]
                     /\ txns'["R1"].status = "success"
            /\ credits["R1"] = 1 => UNCHANGED <<balance, txns, credits>>]_vars

\* Three signed charge.success deliveries have been handled one after another;
\* one credited R1 (500 -> 600) and the last found it already success.
C2_Witness ==
    /\ started = 3
    /\ gwCalls.verify = 3
    /\ NoneInFlight
    /\ last.outcome = "already processed"
    /\ credits["R1"] = 1
    /\ balance["u1"] = 600
    /\ txns["R1"].status = "success"

\* C3: every delivery of the deposit webhook is answered, and with HTTP 200.
C3_EveryDeliveryAnswered200 ==
    last.kind = "deposit" => last.resp.status = 200

C5_UnverifiedChargeChangesNothing ==
    [][\A r \in Reqs : \A verifiedData \in GatewayRecords(req[r].ref) :
          (verifiedData.status # "success" /\ WebhookVerifyReturns(r, verifiedData))
             => /\ UNCHANGED <<balance, txns, credits>>
                /\ Ends(r)
                /\ last'.resp.status = 200]_vars

\* A delivery ended on a gateway record that is not success; R1 stays pending.
C5_Witness ==
    /\ last.kind = "deposit"
    /\ last.outcome = "not verified"
    /\ txns["R1"].status = "pending"
    /\ balance["u1"] = InitBalance

\* C6: a payout call that throws ends the withdrawal with an error reply and
\* leaves balance and transaction records as they were; a withdrawal changes
\* the ledger only in the commit that follows a payout call that returned.
C6_FailedPayoutLeavesLedger ==
    [][\A r \in Reqs :
          /\ WithdrawPayoutThrows(r)
                => /\ UNCHANGED <<balance, txns>>
                   /\ Ends(r)
                   /\ last'.resp.status = 400
          /\ (req[r].kind = "withdraw" /\ Steps(r) /\ <<balance, txns>>' # <<balance, txns>>)
                => req[r].pc = "commit" /\ req[r].paid
          /\ (req'[r].kind = "withdraw" /\ req'[r].pc = "commit" /\ req[r].pc # "commit")
                => WithdrawPayoutReturns(r)]_vars

\* A withdrawal ended on a failed payout; nothing was debited or recorded.
C6_Witness ==
    /\ last.kind = "withdraw"
    /\ last.outcome = "Request failed"
    /\ last.resp.status = 400
    /\ balance["u1"] = InitBalance
    /\ \A t \in 1..MaxClock : ~txns[TransferId(t)].exists

\* C7: a withdrawal rejected for an unknown user or an insufficient balance
\* is answered 400, changes nothing, and no payout was made for it.
C7_RejectedWithdrawalNeverPaysOut ==
    /\ []((last.kind = "withdraw"
             /\ last.outcome \in {"User not found", "Insufficient balance"})
            => last.resp.status = 400 /\ ~last.paid)
    /\ [][\A r \in Reqs :
             (WithdrawGetReturns(r) /\ (req[r].user \notin Users
                                          \/ balance[req[r].user] < req[r].amt))
                => /\ UNCHANGED <<balance, txns, gwCalls>>
                   /\ Ends(r)
                   /\ last'.resp.status = 400]_vars

\* C8: a withdrawal whose payout call succeeded ends answered {status: true}
\* with the balance lowered by its amount and one new debit/success record.
C8_PaidWithdrawalIsDebited ==
    /\ []((last.kind = "withdraw" /\ last.paid) => last.resp = Reply(200, "payout"))
    /\ [][\A r \in Reqs :
             WithdrawCommits(r)
                => /\ balance' = [balance EXCEPT ![req[r].user] = @ - req[r].amt]
                   /\ ~txns[req[r].ref].exists
                   /\ txns' = [txns EXCEPT ![req[r].ref] =
                                  Doc(req[r].user, req[r].amt, "debit", "success")]]_vars

\* C9: a transaction record whose status is success or failed keeps it.
C9_TerminalStatusNeverChanges ==
    [][\A id \in TxnIds :
          txns[id].status \in {"success", "failed"}
             => txns'[id].status = txns[id].status]_vars

\* C10: every user's balance is >= 0 in every reachable state.
C10_BalanceNeverNegative == \A u \in Users : balance[u] >= 0

\* One withdrawal has been debited while another, read before that debit and
\* now larger than what is left, waits for its commit.
C10_Witness ==
    /\ last.outcome = "debited"
    /\ \E q \in Reqs :
          /\ req[q].kind = "withdraw"
          /\ req[q].pc = "commit"
          /\ req[q].stale
          /\ req[q].amt <= InitBalance
          /\ req[q].amt > balance[req[q].user]

\* C11: the deposit credit is all-or-nothing.  A step of a deposit delivery
\* either sets the record to success and adds the verified amount to the
\* balance of the record's user, or changes neither balance nor record; this
\* includes the step in which the store transaction fails and a record whose
\* user document does not exist.
C11_CreditAllOrNothing ==
    [][\A r \in Reqs :
          (req[r].kind = "deposit" /\ Steps(r))
             => \/ UNCHANGED <<balance, txns>>
                \/ /\ req[r].user \in Users
                   /\ req[r].user = txns[req[r].ref].userId
                   /\ balance' = [balance EXCEPT ![req[r].user] = @ + req[r].amt]
                   /\ txns' = [txns EXCEPT ![req[r].ref].status = "success"]]_vars

\* The store transaction of a delivery for R4, whose user has no document,
\* failed: R4 is still pending and no balance moved.
C11_Witness ==
    /\ last.kind = "deposit"
    /\ last.outcome = "no user document"
    /\ last.resp.status = 200
    /\ txns["R4"] = Doc("ghost", 50, "credit", "pending")
    /\ balance["u1"] = InitBalance

\* C12: the amount a deposit webhook credits is the amount of the gateway's
\* verify record divided by 100, and it goes to the user of the stored
\* record; the validly signed bodies cs_R1 and cs_R1_other, which have the
\* same event and reference and differ in the amount, status and user they
\* state, take the same step from the same state.
C12_CreditIsGatewayAmount ==
    [][\A r \in Reqs :
          /\ (req[r].pc = "idle" /\ req'[r] # req[r])
                => (WebhookReceive(r, "cs_R1", Hmac(WebhookSecret, "cs_R1"))
                      <=> WebhookReceive(r, "cs_R1_other", Hmac(WebhookSecret, "cs_R1_other")))
          /\ (req[r].kind = "deposit" /\ req[r].pc = "verify" /\ req'[r].pc = "get")
                => \E verifiedData \in GatewayRecords(req[r].ref) :
                      /\ WebhookVerifyReturns(r, verifiedData)
                      /\ req'[r].amt = verifiedData.amount \div 100
          /\ (req[r].kind = "deposit" /\ req[r].pc = "get" /\ req'[r].pc = "commit")
                => /\ req'[r].user = txns[req[r].ref].userId
                   /\ req'[r].amt = req[r].amt
          /\ (req[r].kind = "deposit" /\ req[r].pc = "commit" /\ Steps(r)
                                        /\ balance' # balance)
                => balance' = [balance EXCEPT ![txns[req[r].ref].userId] = @ + req[r].amt]]_vars

\* The only request so far was a delivery for R1; it credited 10000 / 100 to
\* u1, whatever amount and user its body stated.
C12_Witness ==
    /\ started = 1
    /\ NoneInFlight
    /\ last.outcome = "credited"
    /\ balance["u1"] = InitBalance + 100
    /\ txns["R1"] = Doc("u1", 100, "credit", "success")

\* C13: every withdrawal has a transfer reference of its own: no two
\* withdrawals in flight share one, and the debit record a withdrawal commits
\* is a new document, never one an earlier withdrawal wrote.
C13_TransferIdsUnique ==
    /\ [](\A q1 \in Reqs : \A q2 \in Reqs :
             (q1 # q2 /\ req[q1].kind = "withdraw" /\ req[q2].kind = "withdraw")
                => req[q1].ref # req[q2].ref)
    /\ [][\A r \in Reqs : WithdrawCommits(r) => ~txns[req[r].ref].exists]_vars

\* C14: only the deposit webhook and the withdrawal write balances and
\* transaction statuses: a step of any other handler (the VTpass webhook)
\* leaves every balance and every status as it was.
C14_OnlyDepositAndWithdrawalWrite ==
    [][\A r \in Reqs :
          (req[r].kind \notin {"deposit", "withdraw"} /\ Steps(r))
             => /\ UNCHANGED balance
                /\ \A id \in TxnIds : txns'[id].status = txns[id].status]_vars

\* C15: money is not lost on a transient failure.  When a signed
\* charge.success delivery for the pending R1, which the gateway reports as
\* success, ends because the verify call or a store call threw (while the
\* server can still receive a request), R1 is eventually credited.
C15_TransientFailureStillCredits ==
    (last.kind = "deposit"
        /\ last.outcome \in {"verify threw", "get threw", "commit threw"}
        /\ started < MaxReqs)
      ~> (credits["R1"] >= 1)

\* C16: handling of every deposit delivery completes with an answer: no
\* delivery's handler ends without having sent a reply, whether its body
\* fails to parse or a step of it throws.
C16_EveryDeliveryAnswered ==
    last.kind = "deposit" => last.resp # NoResp

\* C17: the idempotency gate.  A gateway-confirmed delivery that finds no
\* record of its reference, or a record that is already success, ends there:
\* no balance and no record changes, and it is answered 200.
C17_GateStopsWithoutMutation ==
    [][\A r \in Reqs :
          (/\ WebhookGetReturns(r)
           /\ (~txns[req[r].ref].exists \/ txns[req[r].ref].status = "success"))
             => /\ UNCHANGED <<balance, txns, credits>>
                /\ Ends(r)
                /\ last'.resp.status = 200]_vars

\* A gateway-confirmed delivery for R3, which has no record, ended at the
\* gate: still no record of R3, nothing credited.
C17_Witness ==
    /\ last.kind = "deposit"
    /\ last.outcome = "no record"
    /\ last.resp = Reply(200, "Already processed")
    /\ ~txns["R3"].exists
    /\ credits["R3"] = 0
    /\ balance["u1"] = InitBalance

\* C18: a validly signed webhook whose event is not charge.success takes no
\* ledger action: no balance or record changes, the gateway verify call is
\* not made, and it is answered 200.
C18_OtherEventTakesNoAction ==
    [][\A r \in Reqs : \A body \in RawBodies :
          (/\ Parse(body).ok
           /\ Parse(body).event # "charge.success"
           /\ WebhookReceive(r, body, Hmac(WebhookSecret, body)))
             => /\ UNCHANGED <<balance, txns, credits, gwCalls, req>>
                /\ last'.kind = "deposit"
                /\ last'.resp.status = 200]_vars

\* A signed charge.failed webhook was the only request: acknowledged, no
\* verify call, ledger as it was.
C18_Witness ==
    /\ started = 1
    /\ last.kind = "deposit"
    /\ last.outcome = "other event"
    /\ last.resp.status = 200
    /\ gwCalls.verify = 0
    /\ txns["R1"].status = "pending"
    /\ balance["u1"] = InitBalance

\* C19: the steps of a deposit delivery come in a fixed order.  The signature
\* is checked before the body is parsed (a body that does not parse and has a
\* wrong signature is refused for its signature); the verify call is issued
\* only by a delivery whose signature matched and whose event is
\* charge.success; the store is read only after the verify call returned a
\* record of status success, and written only after that read.
C19_StepsInOrder ==
    [][\A r \in Reqs :
          /\ \A body \in RawBodies : \A sig \in SigHeaders(body) :
                (~Parse(body).ok /\ sig # Hmac(WebhookSecret, body)
                                /\ WebhookReceive(r, body, sig))
                   => last'.outcome = "bad signature"
          /\ (gwCalls'.verify # gwCalls.verify /\ req'[r] # req[r])
                => \E body \in RawBodies :
                      /\ Parse(body).ok
                      /\ Parse(body).event = "charge.success"
                      /\ WebhookReceive(r, body, Hmac(WebhookSecret, body))
          /\ (req'[r].kind = "deposit" /\ req'[r].pc = "verify" /\ req[r].pc # "verify")
                => req[r].pc = "idle" /\ gwCalls'.verify = gwCalls.verify + 1
          /\ (req'[r].kind = "deposit" /\ req'[r].pc = "get" /\ req[r].pc # "get")
                => \E verifiedData \in GatewayRecords(req[r].ref) :
                      /\ verifiedData.status = "success"
                      /\ WebhookVerifyReturns(r, verifiedData)
          /\ (req'[r].kind = "deposit" /\ req'[r].pc = "commit" /\ req[r].pc # "commit")
                => WebhookGetReturns(r)
          /\ (req[r].kind = "deposit" /\ Steps(r) /\ <<balance, txns>>' # <<balance, txns>>)
                => req[r].pc = "commit"]_vars

\* The only request so far is a delivery that has passed the signature check,
\* the verify call and the store read, and now waits for its commit.
C19_Witness ==
    /\ started = 1
    /\ gwCalls.verify = 1
    /\ \E r \in Reqs :
          /\ req[r].kind = "deposit"
          /\ req[r].pc = "commit"
          /\ req[r].ref = "R1"
          /\ req[r].amt = 100
    /\ txns["R1"].status = "pending"

\* C20: every payout the gateway accepted is matched by a committed debit: a
\* withdrawal for which a payout call returned ends only by the commit that
\* lowers the balance and writes the debit record, and one payout call was
\* made per committed debit.
C20_PayoutMatchedByDebit ==
    [][\A r \in Reqs :
          (req[r].kind = "withdraw" /\ req[r].paid /\ Ends(r))
             => /\ WithdrawCommits(r)
                /\ req[r].attempts = 1]_vars

\* C21: no withdrawal request increases a balance: a step of a withdrawal
\* leaves every user's balance less than or equal to what it was.
C21_WithdrawalNeverIncreasesBalance ==
    [][\A r \in Reqs :
          (req[r].kind = "withdraw" /\ Steps(r))
             => \A u \in Users : balance'[u] <= balance[u]]_vars

\* C22: the VTpass webhook refunds a transaction's amount at most once,
\* however many failure updates arrive for its requestId.
C22_AtMostOneRefundPerTransaction == \A ref \in Refs : refunds[ref] <= 1

\* The sum of f[x] over the finite set S.
RECURSIVE SumOver(_, _)
SumOver(S, f) ==
    IF S = {} THEN 0
    ELSE LET x == CHOOSE y \in S : TRUE IN f[x] + SumOver(S \ {x}, f)

\* The amount (in naira) the gateway's record states for a reference.
VerifiedAmount(ref) ==
    IF GatewayRecords(ref) = {} THEN 0
    ELSE (CHOOSE c \in GatewayRecords(ref) : TRUE).amount \div 100

\* C23: ledger conservation under deposits and withdrawals.  When no request
\* is in flight, each user's balance is the initial balance, plus the
\* verified amount of each of the user's deposit records that is success,
\* minus the amount of each of the user's debit records a withdrawal wrote.
C23_LedgerConservation ==
    NoneInFlight =>
       \A u \in Users :
          balance[u] =
             InitBalance
             + SumOver({ref \in Refs : /\ txns[ref].exists
                                       /\ txns[ref].userId = u
                                       /\ txns[ref].type = "credit"
                                       /\ txns[ref].status = "success"},
                       [ref \in Refs |-> VerifiedAmount(ref)])
             - SumOver({id \in TxnIds \ Refs : /\ txns[id].exists
                                               /\ txns[id].userId = u
                                               /\ txns[id].type = "debit"},
                       [id \in TxnIds |-> txns[id].amount])

=============================================================================
